---- MODULE Spec2Model ----
(***************************************************************************)
(* A model of automata/fa/fa.py: the label formatters get_state_name and   *)
(* get_edge_name, and FA.show_diagram, which builds a pygraphviz           *)
(* multigraph of an automaton, highlights the path of an input, aggregates *)
(* the remaining transitions into labelled edges, lays the graph out and   *)
(* draws it to a file.                                                     *)
(*                                                                         *)
(* Python text is a sequence of code points, so that concatenation,        *)
(* str.join, sorted() and pathlib's suffix are computed as Python computes *)
(* them.  A Python value is a record [tag, s, n, items]: a str carries its *)
(* text s, an int its value n, a frozenset or a tuple its members in       *)
(* items.  For a frozenset, items is the order in which iterating the      *)
(* object yields its members: two frozensets that are equal (==) may       *)
(* iterate in different orders.                                            *)
(***************************************************************************)
EXTENDS Integers, Sequences, FiniteSets, TLC

(***************************************************************************)
(* Bounds of the model.                                                    *)
(***************************************************************************)
MaxStates == 2
MaxTransitions == 2
MaxPathLen == 2
MaxMembers == 2
MaxDepth == 2

(***************************************************************************)
(* Text.                                                                   *)
(***************************************************************************)
\* "λ", what get_state_name returns for the empty string.
Lambda == <<955>>
\* "∅", what get_state_name returns for an empty set.
EmptySetGlyph == <<8709>>
\* "ε", what get_edge_name returns for the empty symbol.
Epsilon == <<949>>
\* ", ", the separator of the members of a set or tuple.
CommaSpace == <<44, 32>>
\* ",", the separator of the symbols of an aggregated edge label.
Comma == <<44>>
LBrace == <<123>>
RBrace == <<125>>
LParen == <<40>>
RParen == <<41>>
\* "."
Dot == <<46>>

\* Python's sep.join(parts)
RECURSIVE Join(_, _)
Join(sep, parts) ==
    IF parts = <<>> THEN <<>>
    ELSE IF Len(parts) = 1 THEN parts[1]
    ELSE parts[1] \o sep \o Join(sep, Tail(parts))

\* Python's str(n) for an int n >= 0
RECURSIVE IntToStr(_)
IntToStr(n) ==
    IF n < 10 THEN <<48 + n>> ELSE IntToStr(n \div 10) \o <<48 + (n % 10)>>

\* Python's s <= t on str: lexicographic by code point
RECURSIVE StrLeq(_, _)
StrLeq(s, t) ==
    IF s = <<>> THEN TRUE
    ELSE IF t = <<>> THEN FALSE
    ELSE IF s[1] # t[1] THEN s[1] < t[1]
    ELSE StrLeq(Tail(s), Tail(t))

\* inserting one text into a sorted list of texts
RECURSIVE Insert(_, _)
Insert(s, sortedSeq) ==
    IF sortedSeq = <<>> THEN <<s>>
    ELSE IF StrLeq(s, sortedSeq[1]) THEN <<s>> \o sortedSeq
    ELSE <<sortedSeq[1]>> \o Insert(s, Tail(sortedSeq))

\* Python's sorted(labels) on a list of str
RECURSIVE sorted(_)
sorted(labels) ==
    IF labels = <<>> THEN <<>> ELSE Insert(labels[1], sorted(Tail(labels)))

(***************************************************************************)
(* Python values that serve as state identifiers.                          *)
(***************************************************************************)
PyStr(text) == [tag |-> "str", s |-> text, n |-> 0, items |-> <<>>]
PyInt(k) == [tag |-> "int", s |-> <<>>, n |-> k, items |-> <<>>]
PyFrozenSet(members) == [tag |-> "frozenset", s |-> <<>>, n |-> 0, items |-> members]
PyTuple(members) == [tag |-> "tuple", s |-> <<>>, n |-> 0, items |-> members]

\* Python's a == b (and the equality hashing agrees with): a frozenset
\* equals a frozenset with the same members, in whatever order each
\* iterates; tuples are equal member by member; a str never equals an int.
RECURSIVE PyEq(_, _)
PyEq(a, b) ==
    /\ a.tag = b.tag
    /\ CASE a.tag = "str" -> a.s = b.s
         [] a.tag = "int" -> a.n = b.n
         [] a.tag = "tuple" ->
              /\ Len(a.items) = Len(b.items)
              /\ \A i \in 1..Len(a.items) : PyEq(a.items[i], b.items[i])
         [] OTHER ->
              /\ Len(a.items) = Len(b.items)
              /\ \A i \in 1..Len(a.items) :
                    \E j \in 1..Len(b.items) : PyEq(a.items[i], b.items[j])

\* FA.get_state_name
RECURSIVE get_state_name(_)
get_state_name(state_data) ==
    IF state_data.tag = "str"
    THEN IF state_data.s = <<>> THEN Lambda ELSE state_data.s
    ELSE IF state_data.tag \in {"frozenset", "tuple"}
    THEN LET inner == Join(CommaSpace,
                           [i \in 1..Len(state_data.items) |->
                               get_state_name(state_data.items[i])])
         IN  IF state_data.tag = "frozenset"
             THEN IF state_data.items # <<>>
                  THEN LBrace \o inner \o RBrace
                  ELSE EmptySetGlyph
             ELSE LParen \o inner \o RParen
    ELSE IntToStr(state_data.n)

\* FA.get_edge_name
get_edge_name(symbol) == IF symbol = <<>> THEN Epsilon ELSE symbol

(***************************************************************************)
(* Colours: coloraide.Color.interpolate in sRGB is linear in each channel, *)
(* and to_string(hex=True) rounds each channel to one of 0..255.  A colour *)
(* is its hex text's three channels.                                       *)
(***************************************************************************)
\* coloraide.Color("#ff0")
start_color == <<255, 255, 0>>
\* coloraide.Color("#0f0") if is_accepted else coloraide.Color("#f00")
end_color(accepted) == IF accepted THEN <<0, 255, 0>> ELSE <<255, 0, 0>>

\* interpolation(num / den).to_string(hex=True): the sample at num/den of
\* the gradient from c0 to c1, each channel rounded half up.
interpolation(c0, c1, num, den) ==
    [ch \in 1..3 |->
        (2 * (c0[ch] * (den - num) + c1[ch] * num) + den) \div (2 * den)]

(***************************************************************************)
(* Paths: pathlib.Path(path) is the parent directory and the final         *)
(* component's text.  An Optional[str] is [is_none, text].                 *)
(***************************************************************************)
NoneStr == [is_none |-> TRUE, text |-> <<>>]
SomeStr(t) == [is_none |-> FALSE, text |-> t]
NonePath == [given |-> FALSE, parent |-> "", name |-> <<>>]

\* str.rfind("."), counted from 1; 0 when there is no dot
LastDot(name) ==
    LET dots == {i \in 1..Len(name) : <<name[i]>> = Dot}
    IN  IF dots = {} THEN 0 ELSE CHOOSE i \in dots : \A j \in dots : j <= i

\* pathlib.PurePath.suffix: the final component's last dot and what follows
\* it, empty when the only dot leads or ends the name
suffix(name) ==
    LET i == LastDot(name)
    IN  IF 1 < i /\ i < Len(name) THEN SubSeq(name, i, Len(name)) ELSE <<>>

\* str.split("."): the pieces between the dots
RECURSIVE SplitDot(_, _)
SplitDot(s, piece) ==
    IF s = <<>> THEN <<piece>>
    ELSE IF <<s[1]>> = Dot THEN <<piece>> \o SplitDot(Tail(s), <<>>)
    ELSE SplitDot(Tail(s), Append(piece, s[1]))

\* format = save_path_final.suffix.split(".")[1] if save_path_final.suffix else None
export_format(name) ==
    IF suffix(name) # <<>> THEN SomeStr(SplitDot(suffix(name), <<>>)[2]) ELSE NoneStr

(***************************************************************************)
(* The pygraphviz graph: AGraph(strict=False, directed=True).  A node is   *)
(* keyed by its name; an edge added without a key to a non-strict graph is *)
(* always a new edge.                                                      *)
(***************************************************************************)
NodeNames(ns) == {nd.name : nd \in ns}

\* AGraph.add_node(name, **attr): finds the node of that name or creates
\* it, then updates the attributes given.
add_node(ns, name, attr) ==
    LET old == {nd \in ns : nd.name = name}
        base == IF old = {}
                THEN [name |-> name, shape |-> "", label |-> "\\N", fontsize |-> ""]
                ELSE CHOOSE nd \in old : TRUE
    IN  (ns \ old) \cup
        {[name |-> name,
          shape |-> IF "shape" \in DOMAIN attr THEN attr.shape ELSE base.shape,
          label |-> IF "label" \in DOMAIN attr THEN attr.label ELSE base.label,
          fontsize |-> IF "fontsize" \in DOMAIN attr THEN attr.fontsize
                       ELSE base.fontsize]}

\* the nodes after AGraph.add_edge(u, v): both ends exist
edge_ends(ns, u, v) == add_node(add_node(ns, u, <<>>), v, <<>>)

\* add_edge as a graph made with strict=True would do it: an edge between
\* two nodes that already have one is that edge, with its attributes updated
add_edge_strict(es, e) ==
    IF \E i \in 1..Len(es) : es[i].tail = e.tail /\ es[i].head = e.head
    THEN [i \in 1..Len(es) |->
            IF es[i].tail = e.tail /\ es[i].head = e.head THEN e ELSE es[i]]
    ELSE Append(es, e)

\* the edges after AGraph.add_edge of edge e on a graph made with
\* strict=False: with no key given, a new edge beside any the two nodes
\* already have
add_edge(es, e) == Append(es, e)

\* the edges once every edge of new is added, in order
RECURSIVE add_edges(_, _)
add_edges(es, new) ==
    IF new = <<>> THEN es ELSE add_edges(add_edge(es, new[1]), Tail(new))

\* str(font_size), str(arrow_size) and str(state_separation) of the default
\* arguments
font_size_str == "14.0"
arrow_size_str == "0.85"
state_separation_str == "0.5"

\* an edge with its attributes; step is the #index of a highlighted label
Edge(u, v, label, step, color, penwidth, tooltip, fontsize) ==
    [tail |-> u, head |-> v, label |-> label, step |-> step,
     color |-> color, penwidth |-> penwidth, tooltip |-> tooltip,
     arrowsize |-> arrow_size_str, fontsize |-> fontsize]

(***************************************************************************)
(* Inputs.                                                                 *)
(***************************************************************************)
\* the sets of at most k members of S
RECURSIVE BoundedSubsets(_, _)
BoundedSubsets(S, k) ==
    IF k = 0 THEN {{}}
    ELSE LET P == BoundedSubsets(S, k - 1)
         IN  P \cup {p \cup {x} : p \in P, x \in S}

\* the sequences of at most k members of S
SeqsUpTo(S, k) == UNION {[1..m -> S] : m \in 0..k}

\* a frozenset's iteration yields each member once
NoRepeat(q) == \A i, j \in 1..Len(q) : i # j => ~PyEq(q[i], q[j])

\* State identifiers of the automata: the texts "a", "" and "λ", the
\* frozenset {"a"} and the tuple ("a",).
AutomatonObjects ==
    {PyStr(<<97>>), PyStr(<<>>), PyStr(Lambda),
     PyFrozenSet(<<PyStr(<<97>>)>>), PyTuple(<<PyStr(<<97>>)>>)}

\* input symbols: "a" and the empty symbol
Symbols == {<<97>>, <<>>}

\* a set of states holds no two equal values
StateSets ==
    {S \in BoundedSubsets(AutomatonObjects, MaxStates) :
        S # {} /\ \A x, y \in S : x # y => ~PyEq(x, y)}

\* transitions are (from_state, to_state, symbol) between states; no two
\* yielded by iter_transitions are equal
TransitionEq(t, u) == PyEq(t[1], u[1]) /\ PyEq(t[2], u[2]) /\ t[3] = u[3]

TransitionSets(S) ==
    LET ends == {o \in AutomatonObjects : \E x \in S : PyEq(o, x)}
    IN  {T \in BoundedSubsets(ends \X ends \X Symbols, MaxTransitions) :
            \A t, u \in T : t # u => ~TransitionEq(t, u)}

\* the walks of at most k transitions of T that start at state from
RECURSIVE Walks(_, _, _)
Walks(T, from, k) ==
    {<<>>} \cup
    (IF k = 0 THEN {}
     ELSE UNION {{<<t>> \o w : w \in Walks(T, t[2], k - 1)} :
                    t \in {t \in T : PyEq(t[1], from)}})

\* str(uuid.uuid4()), 36 hex digits and dashes, abbreviated to "e-4": the
\* text of no bounded state identifier
Uuid4Texts == {<<101, 45, 52>>}

\* the automaton of the documentation's scenario: states q0 and q1,
\* q0 -a-> q1, q0 -b-> q0, q1 accepting
q0 == PyStr(<<113, 48>>)
q1 == PyStr(<<113, 49>>)

\* destinations: "d.svg", "d" and "d.x.svg" in the working directory, which
\* exists, or in the directory out
Destinations ==
    {[given |-> TRUE, parent |-> dir, name |-> nm] :
        dir \in {".", "out"},
        nm \in {<<100, 46, 115, 118, 103>>, <<100>>,
                <<100, 46, 120, 46, 115, 118, 103>>}}

(***************************************************************************)
(* State.                                                                  *)
(***************************************************************************)
VARIABLES
    \* the environment
    installed,            \* coloraide and pygraphviz can be imported
    eager_annotations,    \* the interpreter evaluates annotations at def
    fs_dirs,              \* the directories that exist
    fs_files,             \* the files drawn: [parent, name, format]
    viewer_opened,        \* the platform viewer was started
    \* the module
    _visual_imports,
    \* self
    states, initial_state, final_states, transitions,
    \* the arguments of show_diagram
    input_str,            \* "None" or "str"
    path, view, horizontal, reverse_orientation,
    \* what self._get_input_path answers, and whether it was called
    input_path, is_accepted, trace_called,
    \* the locals of show_diagram
    pc, raised, graph_created, graph_attr, null_node, nodes, edges,
    todo_states, is_edge_drawn, todo_transitions, edge_labels,
    layout_prog, returned,
    \* get_state_name applied to two equal values
    fmt_pc, fmt_a, fmt_b, fmt_name_a, fmt_name_b

env_vars == <<installed, eager_annotations, fs_dirs, fs_files, viewer_opened>>
self_vars == <<states, initial_state, final_states, transitions>>
arg_vars == <<input_str, path, view, horizontal, reverse_orientation,
              input_path, is_accepted>>
graph_vars == <<graph_created, graph_attr, null_node, nodes, edges>>
loop_vars == <<todo_states, is_edge_drawn, todo_transitions, edge_labels>>
fmt_vars == <<fmt_pc, fmt_a, fmt_b, fmt_name_a, fmt_name_b>>
vars == <<env_vars, _visual_imports, self_vars, arg_vars, trace_called, pc,
          raised, graph_vars, loop_vars, layout_prog, returned, fmt_vars>>

\* nothing has run yet
InitLocals ==
    /\ _visual_imports = FALSE
    /\ trace_called = FALSE
    /\ pc = "import"
    /\ raised = "none"
    /\ graph_created = FALSE
    /\ graph_attr = [size |-> "", ranksep |-> "", rankdir |-> ""]
    /\ null_node = <<>>
    /\ nodes = {}
    /\ edges = <<>>
    /\ todo_states = {}
    /\ is_edge_drawn = {}
    /\ todo_transitions = {}
    /\ edge_labels = <<>>
    /\ layout_prog = ""
    /\ returned = FALSE
    /\ fs_files = {}
    /\ viewer_opened = FALSE

FmtOff ==
    /\ fmt_pc = "off"
    /\ fmt_a = PyStr(<<>>)
    /\ fmt_b = PyStr(<<>>)
    /\ fmt_name_a = <<>>
    /\ fmt_name_b = <<>>

\* any automaton over the bounded identifiers, rendered with the default
\* arguments, with or without an input
InitAutomata ==
    /\ installed = TRUE
    /\ eager_annotations = TRUE
    /\ fs_dirs = {"."}
    /\ states \in StateSets
    /\ initial_state \in states
    /\ final_states \in SUBSET states
    /\ transitions \in TransitionSets(states)
    /\ input_str \in {"None", "str"}
    /\ input_path \in IF input_str = "None" THEN {<<>>}
                      ELSE Walks(transitions, initial_state, MaxPathLen)
    /\ is_accepted \in IF input_str = "None" THEN {FALSE} ELSE BOOLEAN
    /\ path = NonePath
    /\ view = FALSE
    /\ horizontal = TRUE
    /\ reverse_orientation = FALSE

\* the scenario's automaton under every environment and every choice of
\* destination, view and orientation
InitScenario ==
    /\ installed \in BOOLEAN
    /\ eager_annotations \in BOOLEAN
    /\ fs_dirs \in {{"."}, {".", "out"}}
    /\ states = {q0, q1}
    /\ initial_state = q0
    /\ final_states = {q1}
    /\ transitions = {<<q0, q1, <<97>>>>, <<q0, q0, <<98>>>>}
    /\ input_str \in {"None", "str"}
    /\ input_path = IF input_str = "None" THEN <<>> ELSE <<<<q0, q1, <<97>>>>>>
    /\ is_accepted = (input_str = "str")
    /\ path \in {NonePath} \cup Destinations
    /\ view \in BOOLEAN
    /\ horizontal \in BOOLEAN
    /\ reverse_orientation \in BOOLEAN

Init == (InitAutomata \/ InitScenario) /\ InitLocals /\ FmtOff

(***************************************************************************)
(* Loading the module: the optional imports, then the class body, whose    *)
(* def show_diagram(...) -> pgv.AGraph evaluates its annotation when the   *)
(* interpreter evaluates annotations at definition time.                   *)
(***************************************************************************)
LoadModule ==
    /\ pc = "import"
    /\ _visual_imports' = installed
    /\ IF ~installed /\ eager_annotations
       THEN pc' = "import_failed" /\ raised' = "NameError"
       ELSE pc' = "loaded" /\ raised' = raised
    /\ UNCHANGED <<env_vars, self_vars, arg_vars, trace_called, graph_vars,
                   loop_vars, layout_prog, returned, fmt_vars>>

(***************************************************************************)
(* show_diagram, from its first line to the edge into the initial node.    *)
(***************************************************************************)
initial_node == get_state_name(initial_state)

\* graph.graph_attr's rankdir after the horizontal and reverse_orientation
\* updates
rankdir_attr ==
    IF reverse_orientation THEN (IF horizontal THEN "RL" ELSE "BT")
    ELSE IF horizontal THEN "LR" ELSE ""

\* graph.graph_attr with fig_size None: no size, ranksep and rankdir
graph_attr_of_call ==
    [size |-> "", ranksep |-> state_separation_str, rankdir |-> rankdir_attr]

StartDiagram ==
    /\ pc = "loaded"
    /\ IF ~_visual_imports
       THEN /\ raised' = "ImportError"
            /\ pc' = "raised"
            /\ UNCHANGED <<graph_vars, todo_states>>
       ELSE /\ \E id \in Uuid4Texts :
                 /\ null_node' = id
                 /\ nodes' = edge_ends(
                        add_node({}, id, [shape |-> "point", label |-> "",
                                          fontsize |-> font_size_str]),
                        id, initial_node)
                 /\ edges' = add_edge(<<>>, Edge(id, initial_node, <<>>, 0, <<>>,
                                                 "", <<45, 62>> \o initial_node,
                                                 ""))
            /\ graph_created' = TRUE
            /\ graph_attr' = graph_attr_of_call
            /\ todo_states' = states
            /\ pc' = "states"
            /\ raised' = raised
    /\ UNCHANGED <<env_vars, _visual_imports, self_vars, arg_vars,
                   trace_called, is_edge_drawn, todo_transitions,
                   edge_labels, layout_prog, returned, fmt_vars>>

\* state in self.final_states
is_final(state) == \E f \in final_states : PyEq(state, f)

\* shape = "doublecircle" if state in self.final_states else "circle"
state_shape(state) == IF is_final(state) THEN "doublecircle" ELSE "circle"

\* one iteration of: for state in self.states
AddStateNode ==
    /\ pc = "states"
    /\ \E state \in todo_states :
         /\ nodes' = add_node(nodes, get_state_name(state),
                              [shape |-> state_shape(state),
                               fontsize |-> font_size_str])
         /\ todo_states' = todo_states \ {state}
    /\ UNCHANGED <<env_vars, _visual_imports, self_vars, arg_vars,
                   trace_called, pc, raised, graph_created, graph_attr,
                   null_node, edges, is_edge_drawn, todo_transitions,
                   edge_labels, layout_prog, returned, fmt_vars>>

(***************************************************************************)
(* The highlighted path.                                                   *)
(***************************************************************************)
\* path_edge as enumerate(input_path) without start=1 would number it
path_edge_from_zero(transition_index) ==
    LET tr == input_path[transition_index]
    IN  Edge(get_state_name(tr[1]), get_state_name(tr[2]),
             get_edge_name(tr[3]), transition_index - 1,
             interpolation(start_color, end_color(is_accepted),
                           transition_index - 1, Len(input_path)),
             "2.5", <<>>, font_size_str)

\* the edge of the transition_index-th transition of the path
path_edge(transition_index) ==
    LET tr == input_path[transition_index]
    IN  Edge(get_state_name(tr[1]), get_state_name(tr[2]),
             get_edge_name(tr[3]), transition_index,
             interpolation(start_color, end_color(is_accepted),
                           transition_index, Len(input_path)),
             "2.5", <<>>, font_size_str)

\* the nodes once every edge of es is added
RECURSIVE nodes_with(_, _)
nodes_with(ns, es) ==
    IF es = <<>> THEN ns
    ELSE nodes_with(edge_ends(ns, es[1].tail, es[1].head), Tail(es))

\* the block under: if input_str is not None
HighlightPath ==
    /\ pc = "states"
    /\ todo_states = {}
    /\ IF input_str # "None"
       THEN LET path_edges == [i \in 1..Len(input_path) |-> path_edge(i)]
            IN  /\ trace_called' = TRUE
                /\ is_edge_drawn' = {input_path[i] : i \in 1..Len(input_path)}
                /\ edges' = add_edges(edges, path_edges)
                /\ nodes' = nodes_with(nodes, path_edges)
       ELSE UNCHANGED <<trace_called, is_edge_drawn, edges, nodes>>
    /\ todo_transitions' = transitions
    /\ pc' = "aggregate"
    /\ UNCHANGED <<env_vars, _visual_imports, self_vars, arg_vars, raised,
                   graph_created, graph_attr, null_node, todo_states,
                   edge_labels, layout_prog, returned, fmt_vars>>

(***************************************************************************)
(* The aggregated edges.                                                   *)
(***************************************************************************)
\* is_edge_drawn[from_state, to_state, symbol]
drawn(tr) == \E d \in is_edge_drawn : TransitionEq(d, tr)

\* edge_labels[key].append(label) on a defaultdict(list), whose keys keep
\* their insertion order
append_label(el, key, label) ==
    IF \E i \in 1..Len(el) : el[i].key = key
    THEN [i \in 1..Len(el) |->
            IF el[i].key = key
            THEN [key |-> key, labels |-> Append(el[i].labels, label)]
            ELSE el[i]]
    ELSE Append(el, [key |-> key, labels |-> <<label>>])

\* one iteration of: for from_state, to_state, symbol in self.iter_transitions()
CollectLabel ==
    /\ pc = "aggregate"
    /\ \E tr \in todo_transitions :
         /\ edge_labels' =
               IF drawn(tr) THEN edge_labels
               ELSE append_label(edge_labels,
                                 <<get_state_name(tr[1]), get_state_name(tr[2])>>,
                                 get_edge_name(tr[3]))
         /\ todo_transitions' = todo_transitions \ {tr}
    /\ UNCHANGED <<env_vars, _visual_imports, self_vars, arg_vars,
                   trace_called, pc, raised, graph_vars, todo_states,
                   is_edge_drawn, layout_prog, returned, fmt_vars>>

\* the edge of one entry of edge_labels
label_edge(entry) ==
    Edge(entry.key[1], entry.key[2], Join(Comma, sorted(entry.labels)), 0,
         <<>>, "", <<>>, font_size_str)

\* for (from_node, to_node), labels in edge_labels.items()
EmitEdges ==
    /\ pc = "aggregate"
    /\ todo_transitions = {}
    /\ LET label_edges == [i \in 1..Len(edge_labels) |-> label_edge(edge_labels[i])]
       IN  /\ edges' = add_edges(edges, label_edges)
           /\ nodes' = nodes_with(nodes, label_edges)
    /\ pc' = "layout"
    /\ UNCHANGED <<env_vars, _visual_imports, self_vars, arg_vars,
                   trace_called, raised, graph_created, graph_attr,
                   null_node,
                   loop_vars, layout_prog, returned, fmt_vars>>

(***************************************************************************)
(* Layout, the write to the destination, and the return.                   *)
(***************************************************************************)
\* graph.draw(path=save_path_final, format=format) opens the destination
\* for writing: it writes the file when the parent directory exists
LayoutAndDraw ==
    /\ pc = "layout"
    /\ layout_prog' = "dot"
    /\ IF path.given /\ path.parent \notin fs_dirs
       THEN /\ raised' = "FileNotFoundError"
            /\ pc' = "raised"
            /\ UNCHANGED <<fs_files, returned>>
       ELSE /\ fs_files' =
                  IF path.given
                  THEN fs_files \cup {[parent |-> path.parent, name |-> path.name,
                                       format |-> export_format(path.name)]}
                  ELSE fs_files
            /\ returned' = TRUE
            /\ pc' = "done"
            /\ raised' = raised
    /\ UNCHANGED <<installed, eager_annotations, fs_dirs, viewer_opened,
                   _visual_imports, self_vars, arg_vars, trace_called,
                   graph_vars, loop_vars, fmt_vars>>

Next ==
    \/ LoadModule
    \/ StartDiagram
    \/ AddStateNode
    \/ HighlightPath
    \/ CollectLabel
    \/ EmitEdges
    \/ LayoutAndDraw

Spec == Init /\ [][Next]_vars

(***************************************************************************)
(* The calls that trace an input: automata over the two texts "" and "λ",  *)
(* which get_state_name renders alike, rendered with an input string.      *)
(***************************************************************************)
PathStateSets == (SUBSET {PyStr(<<>>), PyStr(Lambda)}) \ {{}}

InitPath ==
    /\ installed = TRUE
    /\ eager_annotations = TRUE
    /\ fs_dirs = {"."}
    /\ states \in PathStateSets
    /\ initial_state \in states
    /\ final_states \in SUBSET states
    /\ transitions \in TransitionSets(states)
    /\ input_str = "str"
    /\ input_path \in Walks(transitions, initial_state, MaxPathLen)
    /\ is_accepted \in BOOLEAN
    /\ path = NonePath
    /\ view = FALSE
    /\ horizontal = TRUE
    /\ reverse_orientation = FALSE
    /\ InitLocals
    /\ FmtOff

SpecPath == InitPath /\ [][Next]_vars

(***************************************************************************)
(* get_state_name on its own: two values that are equal in Python, each    *)
(* formatted once.                                                         *)
(***************************************************************************)
\* the atoms "", 0 and 8
Atoms == {PyStr(<<>>), PyInt(0), PyInt(8)}

\* the values nested at most d deep
RECURSIVE Values(_)
Values(d) ==
    IF d = 0 THEN Atoms
    ELSE LET V == Values(d - 1)
             Q == SeqsUpTo(V, MaxMembers)
         IN  V \cup {PyTuple(q) : q \in Q}
               \cup {PyFrozenSet(q) : q \in {q \in Q : NoRepeat(q)}}

InitFormat ==
    /\ fmt_pc = "input"
    /\ fmt_a \in Values(MaxDepth)
    /\ fmt_b \in {v \in Values(MaxDepth) : PyEq(fmt_a, v)}
    /\ fmt_name_a = <<>>
    /\ fmt_name_b = <<>>
    /\ installed = TRUE
    /\ eager_annotations = TRUE
    /\ fs_dirs = {"."}
    /\ states = {q0}
    /\ initial_state = q0
    /\ final_states = {}
    /\ transitions = {}
    /\ input_str = "None"
    /\ input_path = <<>>
    /\ is_accepted = FALSE
    /\ path = NonePath
    /\ view = FALSE
    /\ horizontal = TRUE
    /\ reverse_orientation = FALSE
    /\ InitLocals

\* FA.get_state_name(a) and FA.get_state_name(b)
FormatNames ==
    /\ fmt_pc = "input"
    /\ fmt_name_a' = get_state_name(fmt_a)
    /\ fmt_name_b' = get_state_name(fmt_b)
    /\ fmt_pc' = "done"
    /\ UNCHANGED <<env_vars, _visual_imports, self_vars, arg_vars,
                   trace_called, pc, raised, graph_vars, loop_vars,
                   layout_prog, returned, fmt_a, fmt_b>>

NextFormat == FormatNames

SpecFormat == InitFormat /\ [][NextFormat]_vars

(***************************************************************************)
(* Properties.                                                             *)
(***************************************************************************)
\* the highlighted edges, in the order they were added
Highlighted == SelectSeq(edges, LAMBDA e : e.penwidth = "2.5")

\* the places in edges of the aggregated edges from node u to node v
AggregatedBetween(u, v) ==
    {i \in 1..Len(edges) :
        /\ edges[i].penwidth = ""
        /\ edges[i].tooltip = <<>>
        /\ edges[i].tail = u
        /\ edges[i].head = v}

\* the transition occurs in the traced path
InPath(tr) == \E i \in 1..Len(input_path) : TransitionEq(input_path[i], tr)

\* the symbols collected for the aggregated edge from node u to node v
LabelsOf(u, v) ==
    IF \E i \in 1..Len(edge_labels) : edge_labels[i].key = <<u, v>>
    THEN (CHOOSE e \in {edge_labels[i] : i \in 1..Len(edge_labels)} :
             e.key = <<u, v>>).labels
    ELSE <<>>

\* how many times label l was collected for the edge from u to v
TimesCollected(u, v, l) ==
    Cardinality({i \in 1..Len(LabelsOf(u, v)) : LabelsOf(u, v)[i] = l})

\* the distinct texts of Ls in lexicographic order, joined with commas
SortedJoin(Ls) ==
    Join(Comma,
         CHOOSE q \in [1..Cardinality(Ls) -> Ls] :
            \A i, j \in 1..Cardinality(Ls) :
               i < j => (q[i] # q[j] /\ StrLeq(q[i], q[j])))

\* the hex colour at position i/L of the gradient from #ffff00 to #00ff00
\* (accepted) or to #ff0000 (rejected)
GradientSample(i, L, accepted) ==
    LET fading == (2 * 255 * (L - i) + L) \div (2 * L)
    IN  IF accepted THEN <<fading, 255, 0>> ELSE <<255, fading, 0>>

\* C1: once show_diagram has built the graph, the graph has one node per
\* automaton state and one point-shaped, empty-label entry node, none
\* shared: the number of nodes is the number of states plus one.
C1_NodeCount ==
    pc = "done" =>
        /\ \E nd \in nodes :
              nd.name = null_node /\ nd.shape = "point" /\ nd.label = ""
        /\ \A s \in states : get_state_name(s) # null_node
        /\ Cardinality(nodes) = Cardinality(states) + 1

\* C2: in the built graph the node of every state s is a doublecircle if s
\* is a final state and a circle if it is not, whatever the order in which
\* the states were added.
C2_ShapeIffAccepting ==
    pc = "done" =>
        \A s \in states :
            \E nd \in nodes :
                /\ nd.name = get_state_name(s)
                /\ nd.shape = IF \E f \in final_states : PyEq(s, f)
                              THEN "doublecircle" ELSE "circle"

\* C3: no transition is drawn twice: every triple of the traced path is
\* recorded as drawn and its symbol is not in the label of the aggregated
\* edge between its source and its target, and every other triple that
\* iter_transitions yields is in exactly one aggregated edge label.
C3_NoTransitionTwice ==
    pc = "done" =>
        /\ \A i \in 1..Len(input_path) :
              LET tr == input_path[i]
              IN  /\ drawn(tr)
                  /\ TimesCollected(get_state_name(tr[1]), get_state_name(tr[2]),
                                    get_edge_name(tr[3])) = 0
        /\ \A tr \in transitions :
              ~InPath(tr) =>
                  Cardinality({i \in 1..Len(edge_labels) :
                      /\ edge_labels[i].key =
                            <<get_state_name(tr[1]), get_state_name(tr[2])>>
                      /\ \E k \in 1..Len(edge_labels[i].labels) :
                            edge_labels[i].labels[k] = get_edge_name(tr[3])}) = 1

\* C4: the aggregation emits exactly one edge for every (source, target)
\* pair of states that has a transition outside the traced path and none
\* for the other pairs, and that edge's label is the formatted symbols of
\* the pair's transitions outside the path, sorted and joined with commas;
\* so the edges do not depend on the order iter_transitions yields in.
C4_OneEdgePerPair ==
    pc = "done" =>
        \A s, t \in states :
            LET rest == {tr \in transitions :
                            PyEq(tr[1], s) /\ PyEq(tr[2], t) /\ ~InPath(tr)}
                found == AggregatedBetween(get_state_name(s), get_state_name(t))
            IN  IF rest = {} THEN found = {}
                ELSE /\ Cardinality(found) = 1
                     /\ \A i \in found :
                           edges[i].label =
                              SortedJoin({get_edge_name(tr[3]) : tr \in rest})

\* C5: for a traced path of length L, the i-th transition of the path is
\* drawn with step index i and the colour at position i/L of the gradient
\* from the start colour to the outcome's end colour, the steps increase
\* along the path and the last transition has exactly the end colour; for
\* L = 0 no edge has a path colour or a step, and nothing is raised.
C5_PathColours ==
    (input_str = "str" /\ trace_called) =>
        LET L == Len(input_path)
            H == Highlighted
        IN  /\ Len(H) = L
            /\ \A i \in 1..L :
                  /\ H[i].step = i
                  /\ H[i].label = get_edge_name(input_path[i][3])
                  /\ H[i].color = GradientSample(i, L, is_accepted)
            /\ \A i \in 1..(L - 1) : H[i].step < H[i + 1].step
            /\ L >= 1 => H[L].color =
                            IF is_accepted THEN <<0, 255, 0>> ELSE <<255, 0, 0>>
            /\ L = 0 =>
                  /\ \A k \in 1..Len(edges) :
                        edges[k].color = <<>> /\ edges[k].step = 0
                  /\ raised = "none"

\* C5's case: a rejected path of two or more transitions was drawn and the
\* diagram returned.
C5_Witness ==
    /\ pc = "done"
    /\ input_str = "str"
    /\ Len(input_path) >= 2
    /\ ~is_accepted
    /\ Len(Highlighted) = Len(input_path)

\* C6: when the rendering backend cannot be imported, the attempt to render
\* ends with the ImportError that show_diagram raises, and with no graph,
\* node or edge made, no trace asked for, no layout and no file written.
C6_TaggedImportError ==
    (~installed /\ pc \in {"import_failed", "raised", "done"}) =>
        /\ raised = "ImportError"
        /\ ~graph_created
        /\ nodes = {}
        /\ edges = <<>>
        /\ ~trace_called
        /\ layout_prog = ""
        /\ fs_files = {}

\* the text after the last dot of a name, and no format for a name
\* without a dot
ExtensionOf(name) ==
    IF LastDot(name) = 0 THEN NoneStr
    ELSE SomeStr(SubSeq(name, LastDot(name) + 1, Len(name)))

\* C7: a render to a destination ends with the destination written in the
\* format of its extension, its parent directory existing, also when the
\* parent did not exist before the call.
C7_ParentEnsured ==
    (path.given /\ _visual_imports /\ pc \in {"raised", "done"}) =>
        /\ raised = "none"
        /\ path.parent \in fs_dirs
        /\ [parent |-> path.parent, name |-> path.name,
            format |-> ExtensionOf(path.name)] \in fs_files

\* C8: get_state_name gives two equal values the same text, whatever the
\* order their sets iterate in, and gives an empty set the empty-set glyph
\* and not the lambda glyph.
C8_EqualValuesSameName ==
    fmt_pc = "done" =>
        /\ fmt_name_a = fmt_name_b
        /\ fmt_a = PyFrozenSet(<<>>) =>
              (fmt_name_a = EmptySetGlyph /\ fmt_name_a # Lambda)

\* C9: without a destination, a call with view set opens the viewer, and a
\* call without view returns the graph, writes no file and opens no viewer.
C9_ViewInvokesViewer ==
    (pc = "done" /\ ~path.given) =>
        /\ returned
        /\ view => viewer_opened
        /\ ~view => (fs_files = {} /\ ~viewer_opened)

\* C10: when the traced path takes the same (source, target, symbol) triple
\* at two steps, the graph has one highlighted edge per step of the path,
\* the two between the nodes of that source and target, each with its own
\* step index and the colour of its own position, and the symbols collected
\* for aggregated edges come from the transitions outside the path alone.
C10_RepeatedTriples ==
    (input_str = "str" /\ pc \in {"layout", "done"}) =>
        LET L == Len(input_path)
            H == Highlighted
        IN  \A i, j \in 1..L :
                (i < j /\ TransitionEq(input_path[i], input_path[j])) =>
                    LET u == get_state_name(input_path[i][1])
                        v == get_state_name(input_path[i][2])
                        l == get_edge_name(input_path[i][3])
                    IN  /\ Len(H) = L
                        /\ \A k \in {i, j} :
                              /\ H[k].tail = u
                              /\ H[k].head = v
                              /\ H[k].label = l
                              /\ H[k].step = k
                              /\ H[k].color = GradientSample(k, L, is_accepted)
                        /\ TimesCollected(u, v, l) =
                              Cardinality({tr \in transitions :
                                  /\ ~InPath(tr)
                                  /\ get_state_name(tr[1]) = u
                                  /\ get_state_name(tr[2]) = v
                                  /\ get_edge_name(tr[3]) = l})
                        /\ Cardinality(AggregatedBetween(u, v)) =
                              IF LabelsOf(u, v) = <<>> THEN 0 ELSE 1

\* C10's case: a path that took one triple at two steps was drawn, and the
\* diagram returned.
C10_Witness ==
    /\ pc = "done"
    /\ input_str = "str"
    /\ \E i, j \in 1..Len(input_path) :
          i < j /\ TransitionEq(input_path[i], input_path[j])
    /\ Len(Highlighted) >= 2

====
